---- MODULE Spec2Model ----
(***************************************************************************)
(* A model of the chunk / dispatch / aggregate pipeline of the AI data     *)
(* processor (src/src/utils.py, src/src/processing.py,                     *)
(* src/src/decorators.py) and of the global token ledger of its HTTP       *)
(* entry point (src/src/main.py).                                          *)
(*                                                                         *)
(* The module holds several specifications over one set of variables; a    *)
(* specification leaves the components it does not exercise in their idle  *)
(* state:                                                                  *)
(*   SpecChunker     chunk_text on every bounded input                     *)
(*   SpecGather      one gather_with_concurrency(n, tasks) call            *)
(*   Spec            AIProcessor.process_data: batches, then aggregation   *)
(*   SpecAggregator  aggregate_results on every bounded result list        *)
(*   SpecLedger      validate_global_tokens / process_data / reset         *)
(*                                                                         *)
(* Texts are modelled by what the code reads of them: a serialized unit    *)
(* is an opaque identity with a token count, a generated text is its       *)
(* token count (tagged, in the pipeline, with the chunk it answers).       *)
(***************************************************************************)
EXTENDS Integers, Sequences, FiniteSets, TLC

\* ------------------------------------------------------------------ bounds
\* Distinct serialized units an input may draw from.
MaxUnits == 2
\* Longest input sequence given to chunk_text.
MaxLen == 3
\* Largest token count of a single unit.
MaxTok == 3
\* Largest chunking budget tried (the smallest is -1: the budget is
\* MAX_CONTEXT_TOKENS minus the instruction's tokens, which may be negative).
MaxBudget == 3
\* Most chunks (tasks) of one request, and the largest concurrency limit.
MaxChunks == 3
MaxConc == 2
\* Longest results list given to aggregate_results directly.
MaxResults == 3
\* Depth of nested aggregate_results calls at which the interpreter gives up
\* with RecursionError (sys.getrecursionlimit(), scaled down).
MaxDepth == 3
\* Requests the HTTP entry point receives, and the largest projected cost
\* (data tokens + instruction tokens) of one request.
MaxRequests == 3
MaxCost == 3
\* The largest times the retry decorator is given.
MaxTimes == 3

\* ------------------------------------------------------- program constants
\* config.py:11  Config.MAX_OUTPUT_TOKENS: the output ceiling of the
\* generation service and the aggregator's budget.
Config_MAX_OUTPUT_TOKENS == 4096
\* main.py:35  MAX_OUTPUT_TOKENS (4096), scaled down to the ledger's scale.
MAX_OUTPUT_TOKENS == 3
\* main.py:36  GLOBAL_TOKEN_LIMIT (1_000_000), scaled down.
GLOBAL_TOKEN_LIMIT == 5
\* main.py:110  @retry_on_limit_reached(max_retries=3, delay=2)
max_retries == 3
\* @retry(times=3, ...) on process_chunk.
RetryTimes == 3
\* Tokens the separator of "\n\n".join(results) adds between two results.
SepTokens == 1

VARIABLES
    \* chunk_text (src/src/utils.py:35-74)
    objects,                \* the input list: a sequence of units
    tok,                    \* the tokenizer: unit -> token count
    max_tokens,             \* the budget
    ck_i,                   \* number of objects the for loop has consumed
    chunks,                 \* closed chunks so far
    current_chunk,
    current_token_count,
    ck_pc                   \* "idle" | "loop" | "done"

chunkVars == <<objects, tok, max_tokens, ck_i, chunks, current_chunk,
               current_token_count, ck_pc>>

VARIABLES
    \* gather_with_concurrency (src/src/utils.py:76-93) and
    \* AIProcessor.process_data (src/src/processing.py:70-108)
    n_chunks,               \* len(chunks); chunk k is the k-th of the list
    max_concurrency,
    svc_fails,              \* chunk -> how many leading service calls fail
    task,                   \* chunk -> its process_chunk coroutine
    g_n,                    \* the limit n of the gather call under way
    g_lo, g_hi,             \* its tasks are those of chunks g_lo..g_hi
    sem,                    \* the value of its asyncio.Semaphore
    g_outcome,              \* "none" | "pending" | "returned" | "raised"
    g_order,                \* the tasks run so far, in the order they completed
    g_results,              \* the list the gather call returned
    p_i,                    \* the loop variable i of process_data
    p_results,              \* results
    p_pc,                   \* "idle" | "loop" | "await" | "aggregate"
                            \*   | "done" | "failed"
    p_final                 \* final_result

pipeVars == <<n_chunks, max_concurrency, svc_fails, task, g_n, g_lo, g_hi, sem,
              g_outcome, g_order, g_results, p_i, p_results, p_pc, p_final>>

VARIABLES
    \* AIProcessor.aggregate_results (src/src/processing.py:39-68)
    a_root,                 \* the results list of the outermost call
    a_stack,                \* the calls under way, outermost first
    a_ret,                  \* the value a call has just returned, or NoVal
    a_calls,                \* generation-service calls made so far
    a_status,               \* "idle" | "running" | "done" | "error"
                            \*   | "overflow"
    a_final,                \* what the outermost call returned
    a_out                   \* history: the output of the generation call
                            \*   the outermost call made itself

aggVars == <<a_root, a_stack, a_ret, a_calls, a_status, a_final, a_out>>

VARIABLES
    \* the global token ledger and the /process endpoint (src/src/main.py)
    total_tokens,           \* global_token_usage["total_tokens"]
    window_elapsed,         \* utcnow() >= global_token_usage["reset_time"]
    r_pc,                   \* request -> "new" | "processing" | "sleeping"
                            \*   | "done" | "rejected" | "failed" | "exhausted"
    r_retries,              \* request -> retries of the retry wrapper
    r_status,               \* request -> HTTP status answered (0: none yet)
    l_last,                 \* the latest operation on the ledger
    \* history of the ledger, read by no action's guard
    l_admitted,             \* projected costs admitted since the latest reset
    l_reconciled,           \* output tokens reconciled since the latest reset
    l_was_reset,            \* the window has rolled over at least once
    l_rejected,             \* cost of the latest request rejected while
                            \*   projecting ceiling - l_admitted + 1 (0: none)
    \* retry on a synchronous function (src/src/decorators.py:1-25)
    times,                  \* the decorator's parameter
    attempt,                \* newfn's local
    newfn_pc,               \* "idle" | "loop" | "returned" | "raised"
    newfn_result,           \* what newfn returned or raised
    fn_outcomes             \* history: the outcome of every call of func

ledgerVars == <<total_tokens, window_elapsed, r_pc, r_retries, r_status,
                l_last, l_admitted, l_reconciled, l_was_reset, l_rejected>>

retryVars == <<times, attempt, newfn_pc, newfn_result, fn_outcomes>>

vars == <<chunkVars, pipeVars, aggVars, ledgerVars, retryVars>>

\* ----------------------------------------------------------------- helpers
RECURSIVE SumSeq(_)
SumSeq(s) == IF s = <<>> THEN 0 ELSE Head(s) + SumSeq(Tail(s))

RECURSIVE Flatten(_)
Flatten(ss) == IF ss = <<>> THEN <<>> ELSE Head(ss) \o Flatten(Tail(ss))

Units == 1..MaxUnits

SeqsUpTo(S, n) == UNION {[1..k -> S] : k \in 0..n}

Min(a, b) == IF a < b THEN a ELSE b

\* ============================================================== chunk_text
\* Tokenizer.count_tokens on a unit: a deterministic count >= 0.
count_tokens(obj) == tok[obj]

\* Token sum of a chunk (the sum of its units' counts).
ChunkTokens(chunk) == SumSeq([i \in 1..Len(chunk) |-> count_tokens(chunk[i])])

ExceedsIgnoringRunningSum(count, obj_tokens, budget) == obj_tokens > budget

ExceedsBeforeAdding(count, obj_tokens, budget) == count > budget

\* utils.py:59  if current_token_count + obj_tokens > max_tokens
Exceeds(count, obj_tokens, budget) == count + obj_tokens > budget

AppendAlways(cs, chunk) == Append(cs, chunk)

\* utils.py:60-61 and 69-70  if current_chunk: chunks.append(current_chunk)
AppendIfNonEmpty(cs, chunk) == IF chunk # <<>> THEN Append(cs, chunk) ELSE cs

ChunkerIdle ==
    /\ objects = <<>>
    /\ tok = [u \in Units |-> 0]
    /\ max_tokens = 0
    /\ ck_i = 0
    /\ chunks = <<>>
    /\ current_chunk = <<>>
    /\ current_token_count = 0
    /\ ck_pc = "idle"

\* chunk_text is entered: every input, tokenizer and budget within the bounds.
ChunkerInit ==
    /\ objects \in SeqsUpTo(Units, MaxLen)
    /\ tok \in [Units -> 0..MaxTok]
    /\ max_tokens \in (0 - 1)..MaxBudget
    /\ ck_i = 0
    /\ chunks = <<>>
    /\ current_chunk = <<>>
    /\ current_token_count = 0
    /\ ck_pc = "loop"

\* One iteration of the for loop taking the branch of utils.py:59-63.
ChunkStartNew ==
    /\ ck_pc = "loop"
    /\ ck_i < Len(objects)
    /\ LET obj == objects[ck_i + 1]
           obj_tokens == count_tokens(obj)
       IN /\ Exceeds(current_token_count, obj_tokens, max_tokens)
          /\ chunks' = AppendIfNonEmpty(chunks, current_chunk)
          /\ current_chunk' = <<obj>>
          /\ current_token_count' = obj_tokens
    /\ ck_i' = ck_i + 1
    /\ UNCHANGED <<objects, tok, max_tokens, ck_pc>>

\* One iteration of the for loop taking the branch of utils.py:64-66.
ChunkAppend ==
    /\ ck_pc = "loop"
    /\ ck_i < Len(objects)
    /\ LET obj == objects[ck_i + 1]
           obj_tokens == count_tokens(obj)
       IN /\ ~Exceeds(current_token_count, obj_tokens, max_tokens)
          /\ current_chunk' = Append(current_chunk, obj)
          /\ current_token_count' = current_token_count + obj_tokens
    /\ ck_i' = ck_i + 1
    /\ UNCHANGED <<objects, tok, max_tokens, chunks, ck_pc>>

\* After the loop: utils.py:68-74.
ChunkReturn ==
    /\ ck_pc = "loop"
    /\ ck_i = Len(objects)
    /\ chunks' = AppendIfNonEmpty(chunks, current_chunk)
    /\ ck_pc' = "done"
    /\ UNCHANGED <<objects, tok, max_tokens, ck_i, current_chunk,
                   current_token_count>>

\* C1: every chunk chunk_text returns has a token sum <= the budget, unless
\* it is exactly one unit whose own count exceeds the budget; a unit larger
\* than the budget is never grouped with another unit.
C1_ChunkWithinBudget ==
    ck_pc = "done" =>
        \A c \in 1..Len(chunks) :
            /\ \/ ChunkTokens(chunks[c]) <= max_tokens
               \/ /\ Len(chunks[c]) = 1
                  /\ count_tokens(chunks[c][1]) > max_tokens
            /\ \A j \in 1..Len(chunks[c]) :
                   count_tokens(chunks[c][j]) > max_tokens => Len(chunks[c]) = 1

\* C1's case: an oversized unit was returned alone, next to a chunk that
\* groups several units within the budget.
C1_Witness ==
    /\ ck_pc = "done"
    /\ \E c \in 1..Len(chunks) :
           Len(chunks[c]) = 1 /\ count_tokens(chunks[c][1]) > max_tokens
    /\ \E c \in 1..Len(chunks) :
           Len(chunks[c]) >= 2 /\ ChunkTokens(chunks[c]) > 0

\* C2: the chunks returned, concatenated in order, are the input sequence;
\* no chunk is empty; an empty input yields no chunk.
C2_ChunksPartitionInput ==
    ck_pc = "done" =>
        /\ Flatten(chunks) = objects
        /\ \A c \in 1..Len(chunks) : chunks[c] # <<>>
        /\ (objects = <<>> => chunks = <<>>)

\* C2's case: an input of three units was split into more than one chunk.
C2_Witness ==
    /\ ck_pc = "done"
    /\ Len(objects) = 3
    /\ Len(chunks) >= 2
    /\ objects[1] # objects[2]

\* ======================================================= aggregate_results
NoVal == 0 - 1

\* Token counts a generated text may have: the service is called with
\* max_tokens=Config.MAX_OUTPUT_TOKENS, so an output is within the ceiling.
OutSizes == {1, Config_MAX_OUTPUT_TOKENS}

\* Token counts of the elements of a results list given to the aggregator
\* directly: one token, within the ceiling (two below it, or at it), or one
\* token above it.
ResultSizes ==
    {1, Config_MAX_OUTPUT_TOKENS - 2, Config_MAX_OUTPUT_TOKENS,
     Config_MAX_OUTPUT_TOKENS + 1}

\* processing.py:52  count_tokens("\n\n".join(results)); "" counts 0.
JoinTokens(results) ==
    IF results = <<>> THEN 0
    ELSE SumSeq(results) + SepTokens * (Len(results) - 1)

FitsStrictlyBelow(results) == JoinTokens(results) < Config_MAX_OUTPUT_TOKENS

\* processing.py:53  the base case's condition.
Fits(results) == JoinTokens(results) <= Config_MAX_OUTPUT_TOKENS

\* processing.py:64  mid = len(results) // 2
Mid(results) == Len(results) \div 2

\* processing.py:65  results[:mid]
FirstHalf(results) == SubSeq(results, 1, Mid(results))

\* processing.py:66  results[mid:]
SecondHalf(results) == SubSeq(results, Mid(results) + 1, Len(results))

\* A call of aggregate_results as it is entered.
Frame(results) ==
    [results |-> results, pc |-> "start", first_half |-> NoVal,
     second_half |-> NoVal]

Top == a_stack[Len(a_stack)]

Pop(stack) == SubSeq(stack, 1, Len(stack) - 1)

ReplaceTop(stack, frame) == [stack EXCEPT ![Len(stack)] = frame]

AggIdle ==
    /\ a_root = <<>>
    /\ a_stack = <<>>
    /\ a_ret = NoVal
    /\ a_calls = 0
    /\ a_status = "idle"
    /\ a_final = NoVal
    /\ a_out = NoVal

\* aggregate_results(results, ...) is called from outside.
AggEnter(results) ==
    /\ a_root = results
    /\ a_stack = <<Frame(results)>>
    /\ a_ret = NoVal
    /\ a_calls = 0
    /\ a_status = "running"
    /\ a_final = NoVal
    /\ a_out = NoVal

AggRunning == a_status = "running" /\ a_stack # <<>>

\* processing.py:53-61  the base case: one generation call, whose output is
\* returned to the caller.
AggBaseCase ==
    /\ AggRunning
    /\ a_ret = NoVal
    /\ Top.pc = "start"
    /\ Fits(Top.results)
    /\ \E out \in OutSizes :
           /\ a_ret' = out
           /\ a_out' = IF Len(a_stack) = 1 THEN out ELSE a_out
    /\ a_calls' = a_calls + 1
    /\ a_stack' = Pop(a_stack)
    /\ UNCHANGED <<a_root, a_status, a_final>>

\* processing.py:54  the generation call raises: nothing catches it in
\* aggregate_results, so every call under way ends with it.
AggServiceFails ==
    /\ AggRunning
    /\ a_ret = NoVal
    /\ Top.pc = "start"
    /\ Fits(Top.results)
    /\ a_calls' = a_calls + 1
    /\ a_status' = "error"
    /\ UNCHANGED <<a_root, a_stack, a_ret, a_final, a_out>>

\* processing.py:64-65  too large: recurse on the first half.
AggSplit ==
    /\ AggRunning
    /\ a_ret = NoVal
    /\ Top.pc = "start"
    /\ ~Fits(Top.results)
    /\ Len(a_stack) < MaxDepth
    /\ a_stack' = Append(ReplaceTop(a_stack, [Top EXCEPT !.pc = "first"]),
                         Frame(FirstHalf(Top.results)))
    /\ UNCHANGED <<a_root, a_ret, a_calls, a_status, a_final,
                   a_out>>

\* processing.py:65-66  the first half returned: recurse on the second.
AggAfterFirst ==
    /\ AggRunning
    /\ a_ret # NoVal
    /\ Top.pc = "first"
    /\ Len(a_stack) < MaxDepth
    /\ a_stack' = Append(ReplaceTop(a_stack, [Top EXCEPT !.pc = "second",
                                                         !.first_half = a_ret]),
                         Frame(SecondHalf(Top.results)))
    /\ a_ret' = NoVal
    /\ UNCHANGED <<a_root, a_calls, a_status, a_final, a_out>>

\* processing.py:66-68  the second half returned: recurse on the two
\* summaries.
AggAfterSecond ==
    /\ AggRunning
    /\ a_ret # NoVal
    /\ Top.pc = "second"
    /\ Len(a_stack) < MaxDepth
    /\ a_stack' = Append(ReplaceTop(a_stack, [Top EXCEPT !.pc = "final",
                                                         !.second_half = a_ret]),
                         Frame(<<Top.first_half, a_ret>>))
    /\ a_ret' = NoVal
    /\ UNCHANGED <<a_root, a_calls, a_status, a_final, a_out>>

\* processing.py:68  return await ...: the value of the call on the two
\* summaries is this call's value.
AggAfterFinal ==
    /\ AggRunning
    /\ a_ret # NoVal
    /\ Top.pc = "final"
    /\ a_stack' = Pop(a_stack)
    /\ UNCHANGED <<a_root, a_ret, a_calls, a_status, a_final,
                   a_out>>

\* A recursive call at the interpreter's recursion limit: RecursionError,
\* which nothing catches in aggregate_results.
AggRecursionError ==
    /\ AggRunning
    /\ Len(a_stack) = MaxDepth
    /\ \/ a_ret = NoVal /\ Top.pc = "start" /\ ~Fits(Top.results)
       \/ a_ret # NoVal /\ Top.pc \in {"first", "second"}
    /\ a_status' = "overflow"
    /\ UNCHANGED <<a_root, a_stack, a_ret, a_calls, a_final,
                   a_out>>

\* The outermost call has returned.
AggReturn ==
    /\ a_status = "running"
    /\ a_stack = <<>>
    /\ a_ret # NoVal
    /\ a_status' = "done"
    /\ a_final' = a_ret
    /\ a_ret' = NoVal
    /\ UNCHANGED <<a_root, a_stack, a_calls, a_out>>


\* ============================================ process_chunk and the gather
\* How many leading calls of the generation service fail for a chunk: none,
\* one (a transient failure), or every call the retry decorator could make.
FailCounts == {0, 1, RetryTimes + 1}

NoResult == [for |-> 0, tokens |-> NoVal]

\* A chunk for which process_chunk has not been called yet.
NoTask == [state |-> "none", calls |-> 0, result |-> NoResult,
           error_code |-> 0]

\* processing.py:95  self.process_chunk(chunk, user_prefix): the wrapper
\* newfn of decorators.py:12-23 runs now. func is a coroutine function, so
\* func(*args) at decorators.py:16 only builds the coroutine and cannot
\* raise; newfn returns it from its first iteration, with attempt = 0.
NewTask == [state |-> "created", calls |-> 0, result |-> NoResult,
            error_code |-> 0]

Chunks == 1..n_chunks

Batch == g_lo..g_hi

Active == {k \in Batch : task[k].state = "active"}

CanAcquireAlways(value) == value >= 0

\* asyncio.Semaphore.acquire proceeds without waiting while the value is
\* positive (utils.py:90  async with semaphore).
CanAcquire(value) == value > 0

\* utils.py:90-91  sem_task passes the semaphore and awaits the coroutine,
\* whose body runs up to the generation call (processing.py:28).
TaskAcquire(k) ==
    /\ k \in Batch
    /\ task[k].state = "created"
    /\ CanAcquire(sem)
    /\ sem' = sem - 1
    /\ task' = [task EXCEPT ![k].state = "active", ![k].calls = @ + 1]
    /\ UNCHANGED <<n_chunks, max_concurrency, svc_fails, g_n, g_lo, g_hi,
                   g_outcome, g_order, g_results, p_i, p_results, p_pc,
                   p_final>>

\* processing.py:28-35  the generation call returns a text; leaving the
\* async with block releases the semaphore.
TaskSucceed(k, out) ==
    /\ k \in Batch
    /\ task[k].state = "active"
    /\ task[k].calls > svc_fails[k]
    /\ task' = [task EXCEPT ![k].state = "done",
                            ![k].result = [for |-> k, tokens |-> out]]
    /\ sem' = sem + 1
    /\ g_order' = Append(g_order, k)
    /\ UNCHANGED <<n_chunks, max_concurrency, svc_fails, g_n, g_lo, g_hi,
                   g_outcome, g_results, p_i, p_results, p_pc, p_final>>

ReturnErrorText(t) ==
    [t EXCEPT !.state = "done", !.result = [for |-> 0, tokens |-> 1]]

\* processing.py:36-37  raise LlmCallError("LLm Call Failed: ", 503): the
\* coroutine ends by the exception, whose error_code is 503 (decorators.py:30-32).
LlmCallFailed(t) == [t EXCEPT !.state = "failed", !.error_code = 503]

\* processing.py:36-37  the generation call raises and process_chunk raises
\* LlmCallError(..., 503). The coroutine is awaited in sem_task, outside the
\* try block of decorators.py:15-22, so no retry follows: the task fails.
TaskFail(k) ==
    /\ k \in Batch
    /\ task[k].state = "active"
    /\ task[k].calls <= svc_fails[k]
    /\ task' = [task EXCEPT ![k] = LlmCallFailed(task[k])]
    /\ sem' = sem + 1
    /\ g_order' = Append(g_order, k)
    /\ UNCHANGED <<n_chunks, max_concurrency, svc_fails, g_n, g_lo, g_hi,
                   g_outcome, g_results, p_i, p_results, p_pc, p_final>>

GatherCompletedIgnoringFailures(lo, hi) ==
    \A k \in lo..hi : task[k].state \in {"done", "failed"}

\* utils.py:93  asyncio.gather returns once every awaitable has a result.
GatherCompleted(lo, hi) == \A k \in lo..hi : task[k].state = "done"

GatherResultsByCompletion(lo, hi) ==
    [j \in 1..(hi - lo + 1) |-> task[g_order[lo + j - 1]].result]

\* utils.py:93  asyncio.gather lists the results in the order of its
\* arguments.
GatherResults(lo, hi) == [j \in 1..(hi - lo + 1) |-> task[lo + j - 1].result]

GatherReturn ==
    /\ g_outcome = "pending"
    /\ GatherCompleted(g_lo, g_hi)
    /\ g_outcome' = "returned"
    /\ g_results' = GatherResults(g_lo, g_hi)
    /\ UNCHANGED <<n_chunks, max_concurrency, svc_fails, task, g_n, g_lo,
                   g_hi, sem, g_order, p_i, p_results, p_pc, p_final>>

\* utils.py:93  asyncio.gather (return_exceptions left False) raises the
\* first exception of an awaitable; the other awaitables are not cancelled.
GatherRaise ==
    /\ g_outcome = "pending"
    /\ \E k \in Batch : task[k].state = "failed"
    /\ g_outcome' = "raised"
    /\ UNCHANGED <<n_chunks, max_concurrency, svc_fails, task, g_n, g_lo,
                   g_hi, sem, g_order, g_results, p_i, p_results, p_pc,
                   p_final>>

\* No process_data call, no gather call.
PipelineIdle ==
    /\ n_chunks = 0
    /\ max_concurrency = 1
    /\ svc_fails = <<>>
    /\ task = <<>>
    /\ g_n = 1
    /\ g_lo = 1
    /\ g_hi = 0
    /\ sem = 1
    /\ g_outcome = "none"
    /\ g_order = <<>>
    /\ g_results = <<>>
    /\ p_i = 0
    /\ p_results = <<>>
    /\ p_pc = "idle"
    /\ p_final = NoVal

\* gather_with_concurrency(n, *tasks) is called with the process_chunk
\* coroutines of n_chunks chunks (utils.py:87  semaphore = Semaphore(n)).
GatherInit ==
    /\ n_chunks \in 0..MaxChunks
    /\ g_n \in 1..MaxConc
    /\ max_concurrency = g_n
    /\ svc_fails \in [1..n_chunks -> FailCounts]
    /\ task = [k \in 1..n_chunks |-> NewTask]
    /\ g_lo = 1
    /\ g_hi = n_chunks
    /\ sem = g_n
    /\ g_outcome = "pending"
    /\ g_order = <<>>
    /\ g_results = <<>>
    /\ p_i = 0
    /\ p_results = <<>>
    /\ p_pc = "idle"
    /\ p_final = NoVal


\* ================================================ AIProcessor.process_data
\* processing.py:90  one batch starts with the loop variable at i.
BatchLo(i) == i + 1

BatchHiWholeList(i) == n_chunks

\* processing.py:92  chunks[i:i + max_concurrency]
BatchHi(i) == Min(i + max_concurrency, n_chunks)

\* processing.py:99  results.extend(batch_results)
Extend(results, batch_results) == results \o batch_results

\* processing.py:90-98  the next batch: its coroutines are created and
\* gather_with_concurrency(max_concurrency, *chunk_tasks) is awaited.
StartBatch ==
    /\ p_pc = "loop"
    /\ p_i < n_chunks
    /\ g_lo' = BatchLo(p_i)
    /\ g_hi' = BatchHi(p_i)
    /\ task' = [k \in Chunks |->
                   IF k \in BatchLo(p_i)..BatchHi(p_i) THEN NewTask ELSE task[k]]
    /\ g_n' = max_concurrency
    /\ sem' = max_concurrency
    /\ g_outcome' = "pending"
    /\ g_results' = <<>>
    /\ p_pc' = "await"
    /\ UNCHANGED <<n_chunks, max_concurrency, svc_fails, g_order, p_i,
                   p_results, p_final>>

\* processing.py:98-99, 90  the gather returned: the batch's results are
\* kept and the loop variable advances.
BatchCollected ==
    /\ p_pc = "await"
    /\ g_outcome = "returned"
    /\ p_results' = Extend(p_results, g_results)
    /\ p_i' = p_i + max_concurrency
    /\ p_pc' = "loop"
    /\ UNCHANGED <<n_chunks, max_concurrency, svc_fails, task, g_n, g_lo,
                   g_hi, sem, g_outcome, g_order, g_results, p_final>>

\* processing.py:98  the gather raised: process_data has no handler, the
\* exception leaves it.
BatchFailed ==
    /\ p_pc = "await"
    /\ g_outcome = "raised"
    /\ p_pc' = "failed"
    /\ UNCHANGED <<n_chunks, max_concurrency, svc_fails, task, g_n, g_lo,
                   g_hi, sem, g_outcome, g_order, g_results, p_i, p_results,
                   p_final>>

\* processing.py:103-106  the loop is over: aggregate_results(results, ...)
\* is called.
StartAggregate ==
    /\ p_pc = "loop"
    /\ p_i >= n_chunks
    /\ a_status = "idle"
    /\ p_pc' = "aggregate"
    /\ a_root' = [j \in 1..Len(p_results) |-> p_results[j].tokens]
    /\ a_stack' = <<Frame(a_root')>>
    /\ a_ret' = NoVal
    /\ a_calls' = 0
    /\ a_status' = "running"
    /\ a_final' = NoVal
    /\ a_out' = NoVal
    /\ UNCHANGED <<n_chunks, max_concurrency, svc_fails, task, g_n, g_lo,
                   g_hi, sem, g_outcome, g_order, g_results, p_i, p_results,
                   p_final>>

\* processing.py:103-108  the aggregator returned: its value is returned.
PipelineReturn ==
    /\ p_pc = "aggregate"
    /\ a_status = "done"
    /\ p_pc' = "done"
    /\ p_final' = a_final
    /\ UNCHANGED <<n_chunks, max_concurrency, svc_fails, task, g_n, g_lo,
                   g_hi, sem, g_outcome, g_order, g_results, p_i, p_results>>

\* processing.py:103  the aggregator raised: the exception leaves
\* process_data.
PipelineAggregationFailed ==
    /\ p_pc = "aggregate"
    /\ a_status \in {"error", "overflow"}
    /\ p_pc' = "failed"
    /\ UNCHANGED <<n_chunks, max_concurrency, svc_fails, task, g_n, g_lo,
                   g_hi, sem, g_outcome, g_order, g_results, p_i, p_results,
                   p_final>>

\* process_data(data, user_prefix, max_concurrency) is entered, chunk_text
\* having returned n_chunks chunks.
PipelineInit ==
    /\ n_chunks \in 0..MaxChunks
    /\ max_concurrency \in 1..MaxConc
    /\ svc_fails \in [1..n_chunks -> FailCounts]
    /\ task = [k \in 1..n_chunks |-> NoTask]
    /\ g_n = max_concurrency
    /\ g_lo = 1
    /\ g_hi = 0
    /\ sem = max_concurrency
    /\ g_outcome = "none"
    /\ g_order = <<>>
    /\ g_results = <<>>
    /\ p_i = 0
    /\ p_results = <<>>
    /\ p_pc = "loop"
    /\ p_final = NoVal

\* processing.py:83-89  process_data of the scenario: chunk_text has
\* returned, results = [] and the loop over the chunks begins. The generation
\* service answers every per-chunk call.
ProcessDataChunked ==
    /\ ck_pc = "done"
    /\ p_pc = "idle"
    /\ n_chunks' = Len(chunks)
    /\ svc_fails' = [k \in 1..Len(chunks) |-> 0]
    /\ task' = [k \in 1..Len(chunks) |-> NoTask]
    /\ g_lo' = 1
    /\ g_hi' = 0
    /\ g_outcome' = "none"
    /\ g_order' = <<>>
    /\ g_results' = <<>>
    /\ p_i' = 0
    /\ p_results' = <<>>
    /\ p_pc' = "loop"
    /\ p_final' = NoVal
    /\ UNCHANGED <<max_concurrency, g_n, sem>>

\* The scenario: every partial result counts 50 tokens.
ScenarioOutSizes == {50}

\* The scenario: process_data(data, user_prefix, max_concurrency=3) on 12
\* tickets of 50 tokens each, with 120 tokens left for a chunk
\* (processing.py:86); chunk_text is entered.
ScenarioInit ==
    /\ objects = [i \in 1..12 |-> IF i % 2 = 1 THEN 1 ELSE 2]
    /\ tok = [u \in Units |-> 50]
    /\ max_tokens = 120
    /\ ck_i = 0
    /\ chunks = <<>>
    /\ current_chunk = <<>>
    /\ current_token_count = 0
    /\ ck_pc = "loop"
    /\ n_chunks = 0
    /\ max_concurrency = 3
    /\ svc_fails = <<>>
    /\ task = <<>>
    /\ g_n = 3
    /\ g_lo = 1
    /\ g_hi = 0
    /\ sem = 3
    /\ g_outcome = "none"
    /\ g_order = <<>>
    /\ g_results = <<>>
    /\ p_i = 0
    /\ p_results = <<>>
    /\ p_pc = "idle"
    /\ p_final = NoVal

\* ===================================== the global token ledger (main.py)
Requests == 1..MaxRequests

\* Token counts the result of processor.process_data may have when counted
\* at main.py:123: within MAX_OUTPUT_TOKENS, or one above it.
ResultTokens == {1, MAX_OUTPUT_TOKENS, MAX_OUTPUT_TOKENS + 1}

\* Why processor.process_data raised, by what main.py:136-137 and the retry
\* wrapper read of the exception: an LlmCallError (whose __str__ reads the
\* attribute message, which is never set, decorators.py:34-35), another
\* exception whose text holds the word "limit", or any other one.
FailureKinds == {"llm_call_error", "limit_in_text", "other"}

\* main.py:90-92  what a request may project, the tokens of its data and of
\* its prefix: a single token, or as many as a request has.
ProjectedCosts == {1, MaxCost}

NoOp == [op |-> "none", before |-> 0, cost |-> 0]

OverOffByOne(total, cost) == total + cost >= GLOBAL_TOKEN_LIMIT

OverIgnoringCost(total, cost) == total > GLOBAL_TOKEN_LIMIT

\* main.py:95  the admission test.
Over(total, cost) == total + cost > GLOBAL_TOKEN_LIMIT

AddOverwriting(total, tokens) == tokens

\* main.py:101 and main.py:133  global_token_usage["total_tokens"] += ...
Add(total, tokens) == total + tokens

MayRetryOnceMore(retries) == retries < max_retries

\* main.py:66  the retry wrapper's test on an HTTPException whose detail
\* holds "limit".
MayRetry(retries) == retries < max_retries - 1

\* Request r reaches validate_global_tokens; the requests are numbered in
\* the order in which they do.
Arrives(r) ==
    /\ r_pc[r] = "new"
    /\ \A q \in Requests : q < r => r_pc[q] # "new"

\* Nothing has reached the entry point and the ledger is not in use.
LedgerIdle ==
    /\ total_tokens = 0
    /\ window_elapsed = FALSE
    /\ r_pc = <<>>
    /\ r_retries = <<>>
    /\ r_status = <<>>
    /\ l_last = NoOp
    /\ l_admitted = 0
    /\ l_reconciled = 0
    /\ l_was_reset = FALSE
    /\ l_rejected = 0

\* main.py:39-42  the process has started; the requests have yet to come.
LedgerInit ==
    /\ total_tokens = 0
    /\ window_elapsed = FALSE
    /\ r_pc = [r \in Requests |-> "new"]
    /\ r_retries = [r \in Requests |-> 0]
    /\ r_status = [r \in Requests |-> 0]
    /\ l_last = NoOp
    /\ l_admitted = 0
    /\ l_reconciled = 0
    /\ l_was_reset = FALSE
    /\ l_rejected = 0

\* main.py:84-107  validate_global_tokens admits a request projecting cost
\* (it has no suspension point: it runs as one step).
Admit(r, cost) ==
    /\ Arrives(r)
    /\ ~Over(total_tokens, cost)
    /\ total_tokens' = Add(total_tokens, cost)
    /\ r_pc' = [r_pc EXCEPT ![r] = "processing"]
    /\ l_last' = [op |-> "admit", before |-> total_tokens, cost |-> cost]
    /\ l_admitted' = l_admitted + cost
    /\ UNCHANGED <<window_elapsed, r_retries, r_status, l_reconciled,
                   l_was_reset, l_rejected>>

\* main.py:95-98, 104-105  validate_global_tokens rejects: the
\* HTTPException(429) raised inside the try block is caught by
\* "except Exception" and replaced by an HTTPException(500). The endpoint
\* and its retry wrapper are not entered.
Reject(r, cost) ==
    /\ Arrives(r)
    /\ Over(total_tokens, cost)
    /\ r_pc' = [r_pc EXCEPT ![r] = "rejected"]
    /\ r_status' = [r_status EXCEPT ![r] = 500]
    /\ l_last' = [op |-> "reject", before |-> total_tokens, cost |-> cost]
    /\ l_rejected' = IF l_admitted >= 1 /\ l_admitted < GLOBAL_TOKEN_LIMIT
                         /\ cost = GLOBAL_TOKEN_LIMIT - l_admitted + 1
                      THEN cost ELSE l_rejected
    /\ UNCHANGED <<total_tokens, window_elapsed, r_retries, l_admitted,
                   l_reconciled, l_was_reset>>

\* main.py:117-135  processing returned a result within the output limit:
\* its tokens are added to the ledger and the request is answered. The
\* wrapper returns, and its local retries is gone with it.
Reconcile(r, output_token_count) ==
    /\ r_pc[r] = "processing"
    /\ output_token_count <= MAX_OUTPUT_TOKENS
    /\ total_tokens' = Add(total_tokens, output_token_count)
    /\ r_pc' = [r_pc EXCEPT ![r] = "done"]
    /\ r_status' = [r_status EXCEPT ![r] = 200]
    /\ l_last' = [op |-> "reconcile", before |-> total_tokens,
                  cost |-> output_token_count]
    /\ l_reconciled' = l_reconciled + output_token_count
    /\ r_retries' = [r_retries EXCEPT ![r] = 0]
    /\ UNCHANGED <<window_elapsed, l_admitted, l_was_reset, l_rejected>>

\* The detail of the HTTPException the endpoint raises holds "limit":
\* main.py:126-130 (output over the limit, re-raised at 136-137), or a
\* processing failure whose text holds the word.
LimitInDetail(output_token_count, kind) ==
    \/ output_token_count > MAX_OUTPUT_TOKENS
    \/ kind = "limit_in_text"

\* main.py:65-68  the wrapper catches such an HTTPException with retries
\* left: it counts the retry and sleeps.
RetrySleep(r, output_token_count, kind) ==
    /\ r_pc[r] = "processing"
    /\ LimitInDetail(output_token_count, kind)
    /\ MayRetry(r_retries[r])
    /\ r_retries' = [r_retries EXCEPT ![r] = @ + 1]
    /\ r_pc' = [r_pc EXCEPT ![r] = "sleeping"]
    /\ UNCHANGED <<total_tokens, window_elapsed, r_status, l_last,
                   l_admitted, l_reconciled, l_was_reset, l_rejected>>

\* main.py:62-64  the sleep is over: the wrapper calls the endpoint again
\* (validate_global_tokens is not run again).
RetryCall(r) ==
    /\ r_pc[r] = "sleeping"
    /\ r_pc' = [r_pc EXCEPT ![r] = "processing"]
    /\ UNCHANGED <<total_tokens, window_elapsed, r_retries, r_status, l_last,
                   l_admitted, l_reconciled, l_was_reset, l_rejected>>

\* main.py:69-70  the wrapper re-raises: no retry left, or no "limit" in the
\* detail; or the exception is none the wrapper catches (the AttributeError
\* of str(LlmCallError) at main.py:137). The request is answered 500: it is
\* "exhausted" when the wrapper gave up on its last invocation, "failed"
\* when the failure was none it retries. The local retries is gone.
EndpointFails(r, output_token_count, kind) ==
    /\ r_pc[r] = "processing"
    /\ \/ /\ LimitInDetail(output_token_count, kind)
          /\ ~MayRetry(r_retries[r])
          /\ r_pc' = [r_pc EXCEPT ![r] = "exhausted"]
       \/ /\ output_token_count <= MAX_OUTPUT_TOKENS
          /\ kind \in {"llm_call_error", "other"}
          /\ r_pc' = [r_pc EXCEPT ![r] = "failed"]
    /\ r_status' = [r_status EXCEPT ![r] = 500]
    /\ r_retries' = [r_retries EXCEPT ![r] = 0]
    /\ UNCHANGED <<total_tokens, window_elapsed, l_last,
                   l_admitted, l_reconciled, l_was_reset, l_rejected>>

RolloverKeepsTotal(total) == total

\* main.py:51  global_token_usage["total_tokens"] = 0
Rollover(total) == 0

\* Time passes beyond global_token_usage["reset_time"].
WindowElapses ==
    /\ ~window_elapsed
    /\ window_elapsed' = TRUE
    /\ UNCHANGED <<total_tokens, r_pc, r_retries, r_status, l_last,
                   l_admitted, l_reconciled, l_was_reset, l_rejected>>

\* main.py:49-54  an iteration of reset_global_tokens that finds the window
\* over: the total is zeroed and reset_time moved a minute ahead.
ResetGlobalTokens ==
    /\ window_elapsed
    /\ total_tokens' = Rollover(total_tokens)
    /\ window_elapsed' = FALSE
    /\ l_last' = [op |-> "reset", before |-> total_tokens, cost |-> 0]
    /\ l_admitted' = 0
    /\ l_reconciled' = 0
    /\ l_was_reset' = TRUE
    /\ UNCHANGED <<r_pc, r_retries, r_status, l_rejected>>


\* ================================= retry on a synchronous function
\* What a call of func may do: return a value, raise an exception that
\* matches the decorator's exceptions, or raise one that does not.
Values == {"v1", "v2"}

Listed == {"LlmCallError", "TimeoutError"}

Unlisted == {"KeyError"}

NoOutcome == "none"

\* The decorator is not in use.
RetryIdle ==
    /\ times = 0
    /\ attempt = 0
    /\ newfn_pc = "idle"
    /\ newfn_result = NoOutcome
    /\ fn_outcomes = <<>>

\* decorators.py:12-13  newfn is entered: attempt = 0.
RetryInit ==
    /\ times \in 0..MaxTimes
    /\ attempt = 0
    /\ newfn_pc = "loop"
    /\ newfn_result = NoOutcome
    /\ fn_outcomes = <<>>

LoopRunsOnceMore(a, t) == a <= t

\* decorators.py:14  while attempt < times
LoopRuns(a, t) == a < t

\* decorators.py:15-16  return func(*args, **kwargs) inside the try block:
\* func returns and so does newfn.
GuardedCallReturns(v) ==
    /\ newfn_pc = "loop"
    /\ LoopRuns(attempt, times)
    /\ fn_outcomes' = Append(fn_outcomes, v)
    /\ newfn_pc' = "returned"
    /\ newfn_result' = v
    /\ UNCHANGED <<times, attempt>>

\* decorators.py:17-22  func raises an exception that "except exceptions"
\* matches: it is printed and attempt incremented.
GuardedCallCaught(e) ==
    /\ newfn_pc = "loop"
    /\ LoopRuns(attempt, times)
    /\ fn_outcomes' = Append(fn_outcomes, e)
    /\ attempt' = attempt + 1
    /\ UNCHANGED <<times, newfn_pc, newfn_result>>

\* decorators.py:15-17  func raises an exception the except clause does not
\* match: it leaves newfn.
GuardedCallPropagates(e) ==
    /\ newfn_pc = "loop"
    /\ LoopRuns(attempt, times)
    /\ fn_outcomes' = Append(fn_outcomes, e)
    /\ newfn_pc' = "raised"
    /\ newfn_result' = e
    /\ UNCHANGED <<times, attempt>>

\* decorators.py:23  the loop is over: return func(*args, **kwargs), with
\* no handler around it; func returns.
FinalCallReturns(v) ==
    /\ newfn_pc = "loop"
    /\ ~LoopRuns(attempt, times)
    /\ fn_outcomes' = Append(fn_outcomes, v)
    /\ newfn_pc' = "returned"
    /\ newfn_result' = v
    /\ UNCHANGED <<times, attempt>>

\* decorators.py:23  the final call raises: the exception, listed or not,
\* leaves newfn.
FinalCallRaises(e) ==
    /\ newfn_pc = "loop"
    /\ ~LoopRuns(attempt, times)
    /\ fn_outcomes' = Append(fn_outcomes, e)
    /\ newfn_pc' = "raised"
    /\ newfn_result' = e
    /\ UNCHANGED <<times, attempt>>


\* ========================================================== specifications
InitChunker ==
    ChunkerInit /\ PipelineIdle /\ AggIdle /\ LedgerIdle /\ RetryIdle

NextChunker ==
    \/ ChunkStartNew /\ UNCHANGED <<pipeVars, aggVars, ledgerVars, retryVars>>
    \/ ChunkAppend /\ UNCHANGED <<pipeVars, aggVars, ledgerVars, retryVars>>
    \/ ChunkReturn /\ UNCHANGED <<pipeVars, aggVars, ledgerVars, retryVars>>

SpecChunker == InitChunker /\ [][NextChunker]_vars

InitGather ==
    GatherInit /\ ChunkerIdle /\ AggIdle /\ LedgerIdle /\ RetryIdle

NextGather ==
    \/ \E k \in Chunks : TaskAcquire(k) /\ UNCHANGED <<chunkVars, aggVars, ledgerVars, retryVars>>
    \/ \E k \in Chunks : \E out \in OutSizes :
           TaskSucceed(k, out) /\ UNCHANGED <<chunkVars, aggVars, ledgerVars, retryVars>>
    \/ \E k \in Chunks : TaskFail(k) /\ UNCHANGED <<chunkVars, aggVars, ledgerVars, retryVars>>
    \/ GatherReturn /\ UNCHANGED <<chunkVars, aggVars, ledgerVars, retryVars>>
    \/ GatherRaise /\ UNCHANGED <<chunkVars, aggVars, ledgerVars, retryVars>>

SpecGather == InitGather /\ [][NextGather]_vars

\* aggregate_results is called with every bounded results list.
InitAggregator ==
    /\ \E results \in SeqsUpTo(ResultSizes, MaxResults) : AggEnter(results)
    /\ ChunkerIdle
    /\ PipelineIdle
    /\ LedgerIdle
    /\ RetryIdle

NextAggregator ==
    \/ AggBaseCase /\ UNCHANGED <<chunkVars, pipeVars, ledgerVars, retryVars>>
    \/ AggServiceFails /\ UNCHANGED <<chunkVars, pipeVars, ledgerVars, retryVars>>
    \/ AggSplit /\ UNCHANGED <<chunkVars, pipeVars, ledgerVars, retryVars>>
    \/ AggAfterFirst /\ UNCHANGED <<chunkVars, pipeVars, ledgerVars, retryVars>>
    \/ AggAfterSecond /\ UNCHANGED <<chunkVars, pipeVars, ledgerVars, retryVars>>
    \/ AggAfterFinal /\ UNCHANGED <<chunkVars, pipeVars, ledgerVars, retryVars>>
    \/ AggRecursionError /\ UNCHANGED <<chunkVars, pipeVars, ledgerVars, retryVars>>
    \/ AggReturn /\ UNCHANGED <<chunkVars, pipeVars, ledgerVars, retryVars>>

SpecAggregator == InitAggregator /\ [][NextAggregator]_vars

\* AIProcessor.process_data, from its loop over the chunks to its return.
Init == PipelineInit /\ ChunkerIdle /\ AggIdle /\ LedgerIdle /\ RetryIdle

Next ==
    \/ StartBatch /\ UNCHANGED <<chunkVars, aggVars, ledgerVars, retryVars>>
    \/ \E k \in Chunks : TaskAcquire(k) /\ UNCHANGED <<chunkVars, aggVars, ledgerVars, retryVars>>
    \/ \E k \in Chunks : \E out \in OutSizes :
           TaskSucceed(k, out) /\ UNCHANGED <<chunkVars, aggVars, ledgerVars, retryVars>>
    \/ \E k \in Chunks : TaskFail(k) /\ UNCHANGED <<chunkVars, aggVars, ledgerVars, retryVars>>
    \/ GatherReturn /\ UNCHANGED <<chunkVars, aggVars, ledgerVars, retryVars>>
    \/ GatherRaise /\ UNCHANGED <<chunkVars, aggVars, ledgerVars, retryVars>>
    \/ BatchCollected /\ UNCHANGED <<chunkVars, aggVars, ledgerVars, retryVars>>
    \/ BatchFailed /\ UNCHANGED <<chunkVars, aggVars, ledgerVars, retryVars>>
    \/ StartAggregate /\ UNCHANGED <<chunkVars, ledgerVars, retryVars>>
    \/ AggBaseCase /\ UNCHANGED <<chunkVars, pipeVars, ledgerVars, retryVars>>
    \/ AggServiceFails /\ UNCHANGED <<chunkVars, pipeVars, ledgerVars, retryVars>>
    \/ AggSplit /\ UNCHANGED <<chunkVars, pipeVars, ledgerVars, retryVars>>
    \/ AggAfterFirst /\ UNCHANGED <<chunkVars, pipeVars, ledgerVars, retryVars>>
    \/ AggAfterSecond /\ UNCHANGED <<chunkVars, pipeVars, ledgerVars, retryVars>>
    \/ AggAfterFinal /\ UNCHANGED <<chunkVars, pipeVars, ledgerVars, retryVars>>
    \/ AggRecursionError /\ UNCHANGED <<chunkVars, pipeVars, ledgerVars, retryVars>>
    \/ AggReturn /\ UNCHANGED <<chunkVars, pipeVars, ledgerVars, retryVars>>
    \/ PipelineReturn /\ UNCHANGED <<chunkVars, aggVars, ledgerVars, retryVars>>
    \/ PipelineAggregationFailed /\ UNCHANGED <<chunkVars, aggVars, ledgerVars, retryVars>>

Spec == Init /\ [][Next]_vars

InitLedger ==
    LedgerInit /\ ChunkerIdle /\ PipelineIdle /\ AggIdle /\ RetryIdle

NextLedger ==
    \/ \E r \in Requests : \E cost \in ProjectedCosts :
           Admit(r, cost) /\ UNCHANGED <<chunkVars, pipeVars, aggVars, retryVars>>
    \/ \E r \in Requests : \E cost \in ProjectedCosts :
           Reject(r, cost) /\ UNCHANGED <<chunkVars, pipeVars, aggVars, retryVars>>
    \/ \E r \in Requests : \E out \in ResultTokens :
           Reconcile(r, out) /\ UNCHANGED <<chunkVars, pipeVars, aggVars, retryVars>>
    \/ \E r \in Requests : \E out \in ResultTokens : \E kind \in FailureKinds :
           RetrySleep(r, out, kind) /\ UNCHANGED <<chunkVars, pipeVars, aggVars, retryVars>>
    \/ \E r \in Requests :
           RetryCall(r) /\ UNCHANGED <<chunkVars, pipeVars, aggVars, retryVars>>
    \/ \E r \in Requests : \E out \in ResultTokens : \E kind \in FailureKinds :
           EndpointFails(r, out, kind) /\ UNCHANGED <<chunkVars, pipeVars, aggVars, retryVars>>
    \/ WindowElapses /\ UNCHANGED <<chunkVars, pipeVars, aggVars, retryVars>>
    \/ ResetGlobalTokens /\ UNCHANGED <<chunkVars, pipeVars, aggVars, retryVars>>

SpecLedger == InitLedger /\ [][NextLedger]_vars

\* newfn is called on a synchronous func, for every times within the bound.
InitRetry ==
    RetryInit /\ ChunkerIdle /\ PipelineIdle /\ AggIdle /\ LedgerIdle

NextRetry ==
    \/ \E v \in Values :
           GuardedCallReturns(v) /\ UNCHANGED <<chunkVars, pipeVars, aggVars, ledgerVars>>
    \/ \E e \in Listed :
           GuardedCallCaught(e) /\ UNCHANGED <<chunkVars, pipeVars, aggVars, ledgerVars>>
    \/ \E e \in Unlisted :
           GuardedCallPropagates(e) /\ UNCHANGED <<chunkVars, pipeVars, aggVars, ledgerVars>>
    \/ \E v \in Values :
           FinalCallReturns(v) /\ UNCHANGED <<chunkVars, pipeVars, aggVars, ledgerVars>>
    \/ \E e \in Listed \cup Unlisted :
           FinalCallRaises(e) /\ UNCHANGED <<chunkVars, pipeVars, aggVars, ledgerVars>>

SpecRetry == InitRetry /\ [][NextRetry]_vars

\* The scenario of 12 tickets: chunk_text, then the batches, then the
\* aggregator, whose input is within its budget.
InitScenario == ScenarioInit /\ AggIdle /\ LedgerIdle /\ RetryIdle

NextScenario ==
    \/ ChunkStartNew /\ UNCHANGED <<pipeVars, aggVars, ledgerVars, retryVars>>
    \/ ChunkAppend /\ UNCHANGED <<pipeVars, aggVars, ledgerVars, retryVars>>
    \/ ChunkReturn /\ UNCHANGED <<pipeVars, aggVars, ledgerVars, retryVars>>
    \/ ProcessDataChunked /\ UNCHANGED <<chunkVars, aggVars, ledgerVars, retryVars>>
    \/ StartBatch /\ UNCHANGED <<chunkVars, aggVars, ledgerVars, retryVars>>
    \/ \E k \in Chunks : TaskAcquire(k) /\ UNCHANGED <<chunkVars, aggVars, ledgerVars, retryVars>>
    \/ \E k \in Chunks : \E out \in ScenarioOutSizes :
           TaskSucceed(k, out) /\ UNCHANGED <<chunkVars, aggVars, ledgerVars, retryVars>>
    \/ GatherReturn /\ UNCHANGED <<chunkVars, aggVars, ledgerVars, retryVars>>
    \/ BatchCollected /\ UNCHANGED <<chunkVars, aggVars, ledgerVars, retryVars>>
    \/ StartAggregate /\ UNCHANGED <<chunkVars, ledgerVars, retryVars>>
    \/ AggBaseCase /\ UNCHANGED <<chunkVars, pipeVars, ledgerVars, retryVars>>
    \/ AggServiceFails /\ UNCHANGED <<chunkVars, pipeVars, ledgerVars, retryVars>>
    \/ AggReturn /\ UNCHANGED <<chunkVars, pipeVars, ledgerVars, retryVars>>
    \/ PipelineReturn /\ UNCHANGED <<chunkVars, aggVars, ledgerVars, retryVars>>
    \/ PipelineAggregationFailed /\ UNCHANGED <<chunkVars, aggVars, ledgerVars, retryVars>>

SpecScenario == InitScenario /\ [][NextScenario]_vars

\* ================================================================== claims
\* C3: in gather_with_concurrency(n, tasks), at every moment at most n of
\* the tasks are active (hold the semaphore and have not finished), and the
\* semaphore's value accounts for exactly the active ones.
C3_AtMostNActive ==
    /\ Cardinality(Active) <= g_n
    /\ sem = g_n - Cardinality(Active)

\* C3's case: more tasks than the limit, the limit reached, a task waiting.
C3_Witness ==
    /\ n_chunks > g_n
    /\ g_n >= 2
    /\ Cardinality(Active) = g_n
    /\ \E k \in Batch : task[k].state = "created"

\* C4: results are index-aligned with inputs whatever the completion order:
\* the gather returns result j for its j-th task, and the list process_data
\* builds and hands to the aggregator has one result per chunk, the i-th
\* being the output for chunk i.
C4_ResultsIndexAligned ==
    /\ g_outcome = "returned" =>
           /\ Len(g_results) = g_hi - g_lo + 1
           /\ \A j \in 1..Len(g_results) : g_results[j].for = g_lo + j - 1
    /\ \A i \in 1..Len(p_results) : p_results[i].for = i
    /\ p_pc \in {"aggregate", "done"} =>
           /\ Len(p_results) = n_chunks
           /\ Len(a_root) = n_chunks
           /\ \A i \in 1..n_chunks : a_root[i] = p_results[i].tokens

\* C4's case: a request of two batches reached the aggregator, the tasks
\* of its first batch having completed in the reverse of input order with
\* different outputs.
C4_Witness ==
    /\ p_pc = "aggregate"
    /\ n_chunks = 3
    /\ g_order = <<2, 1, 3>>
    /\ p_results[1].tokens # p_results[2].tokens

\* C5: a transient failure is retried: if the service would succeed on an
\* attempt within the ceiling of RetryTimes, process_chunk does not fail.
C5_TransientFailureRetried ==
    \A k \in Chunks : svc_fails[k] < RetryTimes => task[k].state # "failed"

\* C6: aggregate_results on an empty or single-element list terminates and
\* invokes the generation service at most once.
C6_DegenerateInputTerminates ==
    Len(a_root) <= 1 => a_calls <= 1 /\ a_status # "overflow"

\* A call under way whose results list is the one of a call it is nested
\* in: the problem did not shrink.
RepeatedProblem ==
    \E d \in 1..Len(a_stack) : \E e \in (d + 1)..Len(a_stack) :
        /\ a_stack[e].results = a_stack[d].results
        /\ ~Fits(a_stack[e].results)

\* A problem is strictly smaller than another when it has fewer results or
\* fewer tokens once joined.
StrictlySmaller(child, parent) ==
    \/ Len(child) < Len(parent)
    \/ JoinTokens(child) < JoinTokens(parent)

\* C7: for a results list of length >= 2 whose elements, like every service
\* output, are within the output ceiling, aggregate_results terminates:
\* every recursive call is on a strictly smaller problem, so the recursion
\* never meets the same problem again and never exhausts the stack.
C7_RecursionShrinks ==
    (Len(a_root) >= 2 /\ \A i \in 1..Len(a_root) : a_root[i] <= Config_MAX_OUTPUT_TOKENS)
        => /\ a_status # "overflow"
           /\ ~RepeatedProblem
           /\ \A d \in 2..Len(a_stack) :
                  StrictlySmaller(a_stack[d].results, a_stack[d - 1].results)

AnyFailed == \E k \in Chunks : task[k].state = "failed"

\* The batch of process_data's loop that chunk k belongs to.
BatchOf(k) == (k - 1) \div max_concurrency

\* C8: once a chunk has failed, the gather raises and process_data fails:
\* the aggregator is not invoked, no chunk of a later batch is dispatched,
\* and process_data never returns a result made from fewer results than
\* chunks.
C8_FailurePropagates ==
    /\ AnyFailed =>
           /\ p_pc \in {"await", "failed"}
           /\ g_outcome \in {"pending", "raised"}
           /\ a_status = "idle"
           /\ \A k \in Chunks : \A j \in Chunks :
                  (task[k].state = "failed" /\ BatchOf(j) > BatchOf(k))
                      => task[j].state = "none"
    /\ p_pc = "failed" /\ a_status = "idle" => g_outcome = "raised"
    /\ a_status # "idle" => Len(a_root) = n_chunks /\ ~AnyFailed
    /\ p_pc = "done" => Len(p_results) = n_chunks /\ ~AnyFailed

\* C8's case: the first chunk failed and process_data failed, while its
\* batch sibling ran on to completion and the later batch was never started.
C8_Witness ==
    /\ p_pc = "failed"
    /\ n_chunks = 3
    /\ max_concurrency = 2
    /\ task[1].state = "failed"
    /\ task[2].state = "done"
    /\ task[3].state = "none"

\* C9: admission to the ledger: a request projecting cost c is rejected
\* exactly when total + c > ceiling, and the total is then left unchanged;
\* otherwise it is admitted and the total increases by exactly c.
C9_AdmissionRule ==
    /\ l_last.op = "reject" =>
           /\ l_last.before + l_last.cost > GLOBAL_TOKEN_LIMIT
           /\ total_tokens = l_last.before
    /\ l_last.op = "admit" =>
           /\ l_last.before + l_last.cost <= GLOBAL_TOKEN_LIMIT
           /\ total_tokens = l_last.before + l_last.cost

\* C9's case: one request was admitted at a positive cost and the next was
\* rejected for a cost the remaining capacity falls short of by one.
C9_Witness ==
    /\ l_last.op = "reject"
    /\ l_last.before + l_last.cost = GLOBAL_TOKEN_LIMIT + 1
    /\ l_last.cost > 0
    /\ l_last.before > 0
    /\ \E r \in Requests : r_pc[r] = "processing"

\* C10: immediately after each admission the ledger total does not exceed
\* the ceiling, whatever admissions, reconciliations and resets came before.
C10_AdmittedWithinCeiling ==
    l_last.op = "admit" => total_tokens <= GLOBAL_TOKEN_LIMIT

\* C10's case: a request is admitted up to the very ceiling after another
\* request's output was reconciled.
C10_Witness ==
    /\ l_last.op = "admit"
    /\ total_tokens = GLOBAL_TOKEN_LIMIT
    /\ l_last.cost > 0
    /\ \E r \in Requests : r_pc[r] = "done"

\* A request has just gone through validate_global_tokens.
Validated == \E r \in Requests : r_pc[r] = "new" /\ r_pc'[r] # "new"

\* The request just validated projects ceiling - C + 1, C being the costs
\* admitted in the window, 1 <= C < ceiling.
ProjectsOneTooMany ==
    /\ l_admitted >= 1
    /\ l_admitted < GLOBAL_TOKEN_LIMIT
    /\ l_last'.cost = GLOBAL_TOKEN_LIMIT - l_admitted + 1

\* The request just validated is one rejected for projecting one too many,
\* and the window has rolled over with no request admitted since.
SameRequestAfterReset ==
    /\ l_was_reset
    /\ l_admitted = 0
    /\ l_rejected > 0
    /\ l_last'.cost = l_rejected

\* C11 as stated: a request projecting ceiling - C + 1 after admissions of
\* summed cost C is rejected; once the window has rolled over and no other
\* request has been admitted since, the same request is admitted.
C11_AdmittedAfterReset ==
    [][Validated =>
          /\ ProjectsOneTooMany => l_last'.op = "reject"
          /\ SameRequestAfterReset => l_last'.op = "admit"]_vars

\* C11, amended: ... and no output has been reconciled since the rollover
\* either, the same request is admitted.
C11_AdmittedAfterResetUntouched ==
    [][Validated =>
          /\ ProjectsOneTooMany =>
                 l_last'.op = "reject" /\ total_tokens' = total_tokens
          /\ (SameRequestAfterReset /\ l_reconciled = 0) =>
                 /\ l_last'.op = "admit"
                 /\ total_tokens' = l_rejected]_vars

\* C11's case: a request was rejected for projecting one too many, the
\* window rolled over, and a request of the same cost has just been admitted.
C11_Witness ==
    /\ l_last.op = "admit"
    /\ l_was_reset
    /\ l_rejected > 0
    /\ l_last.cost = l_rejected
    /\ l_last.before = 0
    /\ l_admitted = l_rejected
    /\ \E r \in Requests : r_pc[r] = "rejected"

\* C12: a request rejected for capacity is answered with status 429, not
\* 400 and not 500.
C12_CapacityRejectionIs429 ==
    \A r \in Requests : r_pc[r] = "rejected" => r_status[r] = 429

\* Request r has just been refused by the admission test of main.py:95.
CapacityExceeded(r) ==
    /\ r_pc[r] = "new"
    /\ r_pc'[r] # "new"
    /\ total_tokens + l_last'.cost > GLOBAL_TOKEN_LIMIT

\* An invocation of the endpoint for r has just failed.
EndpointFailed(r) ==
    /\ r_pc[r] = "processing"
    /\ r_pc'[r] \notin {"processing", "done"}

\* C13: the wrapper retries a failed call if and only if the failure is the
\* capacity rejection: that one is followed by a delayed retry, and any other
\* failure is surfaced on its first occurrence, without retry.
C13_RetryIffCapacity ==
    [][\A r \in Requests :
          /\ CapacityExceeded(r) => r_pc'[r] = "sleeping"
          /\ EndpointFailed(r) => r_pc'[r] = "failed" /\ r_retries[r] = 0]_vars

\* C14: the wrapper is bounded. The wrapped call is invoked at most
\* max_retries times for a request (retries + 1 invocations have begun);
\* the loop test of main.py:62 holds whenever a sleep ends, so the wrapper
\* never falls out of its loop to return nothing; it ends by the endpoint's
\* result (200) or by raising the failure (500).
C14_WrapperBounded ==
    \A r \in Requests :
        /\ r_retries[r] + 1 <= max_retries
        /\ r_pc[r] = "sleeping" => r_retries[r] >= 1
        /\ r_pc[r] \in {"failed", "exhausted"} => r_status[r] = 500
        /\ r_pc[r] = "done" => r_status[r] = 200
        /\ r_pc[r] \in {"new", "processing", "sleeping"} => r_status[r] = 0

\* C14's case: every invocation for a request failed and the wrapper gave
\* up on the last one (max_retries invocations), raising to the caller,
\* while another request is still between two invocations.
C14_Witness ==
    \E r, q \in Requests :
        /\ r_pc[r] = "exhausted"
        /\ r_status[r] = 500
        /\ r_pc[q] = "sleeping"
        /\ r_retries[q] = max_retries - 1

\* C15: no update of the ledger is lost, whatever the interleaving of the
\* requests and the reset task: the total is the sum of the costs admitted
\* and of the outputs reconciled since the latest reset, and it decreases by
\* the rollover only, which makes it zero.
C15_NoLostUpdate ==
    /\ total_tokens = l_admitted + l_reconciled
    /\ l_last.op = "reset" => total_tokens = 0
    /\ l_last.op # "reset" => total_tokens >= l_last.before

\* C15's case: the window has rolled over while a request was in progress;
\* since then an output was reconciled and a request admitted, and a request
\* is in progress still.
C15_Witness ==
    /\ l_was_reset
    /\ l_admitted > 0
    /\ l_reconciled > 0
    /\ total_tokens = l_admitted + l_reconciled
    /\ l_last.op = "reconcile"
    /\ \E r \in Requests : r_pc[r] \in {"processing", "sleeping"}

\* C16: when every attempt made for a chunk has failed, process_chunk ends
\* by raising LlmCallError with code 503 and returns no text, and the
\* generation service is called at most 3 times for the chunk.
C16_ExhaustedRaises503 ==
    \A k \in Chunks :
        /\ task[k].calls <= RetryTimes
        /\ (task[k].state \in {"done", "failed"}
               /\ task[k].calls <= svc_fails[k]) =>
               /\ task[k].state = "failed"
               /\ task[k].error_code = 503
               /\ task[k].result = NoResult

\* C16's case: the service fails on every call for a chunk, and the chunk's
\* process_chunk has raised, while another chunk got its text.
C16_Witness ==
    \E k, j \in Chunks :
        /\ svc_fails[k] > RetryTimes
        /\ task[k].state = "failed"
        /\ task[k].error_code = 503
        /\ task[k].calls >= 1
        /\ task[j].state = "done"

\* C17: when the joined results count no more tokens than the output budget,
\* aggregate_results calls the generation service once, makes no recursive
\* call, and returns the output of that call as it came.
C17_BaseCaseSingleCall ==
    (a_status # "idle" /\ JoinTokens(a_root) <= Config_MAX_OUTPUT_TOKENS) =>
        /\ a_calls <= 1
        /\ Len(a_stack) <= 1
        /\ a_status = "done" =>
               a_calls = 1 /\ a_out \in OutSizes /\ a_final = a_out

\* C17's case: several results that fill the budget exactly were aggregated
\* by one call, whose output of more than one token was returned.
C17_Witness ==
    /\ a_status = "done"
    /\ Len(a_root) >= 2
    /\ JoinTokens(a_root) = Config_MAX_OUTPUT_TOKENS
    /\ a_calls = 1
    /\ a_final = a_out
    /\ a_final > 1

\* Generation calls made so far for the chunks.
ChunkCalls == SumSeq([k \in 1..Len(task) |-> task[k].calls])

\* C18 as stated: 12 units of 50 tokens under a budget of 120 give 5
\* chunks; with concurrency limit 3 the pipeline makes 5 per-chunk calls,
\* which give 5 partial results, and then a single aggregation call.
C18_ScenarioFiveChunks ==
    /\ ck_pc = "done" => Len(chunks) = 5
    /\ ChunkCalls <= 5
    /\ a_status # "idle" => ChunkCalls = 5 /\ Len(p_results) = 5
    /\ a_calls <= 1
    /\ a_status = "done" => a_calls = 1

\* C18, amended: the chunker yields 6 chunks of 2 units; the pipeline makes
\* 6 per-chunk calls, which give 6 partial results in the chunks' order,
\* and then a single aggregation call.
C18_ScenarioSixChunks ==
    /\ ck_pc = "done" =>
           /\ Len(chunks) = 6
           /\ \A c \in 1..Len(chunks) : Len(chunks[c]) = 2
           /\ Flatten(chunks) = objects
    /\ ChunkCalls <= 6
    /\ a_status # "idle" =>
           /\ ChunkCalls = 6
           /\ Len(p_results) = 6
           /\ \A j \in 1..6 : p_results[j].for = j
    /\ a_calls <= 1
    /\ a_status = "done" => a_calls = 1 /\ Len(a_stack) = 0

\* C18's case: the scenario has run to its end; the six partial results
\* were aggregated by one call and its output returned.
C18_Witness ==
    /\ p_pc = "done"
    /\ Len(chunks) = 6
    /\ Len(p_results) = 6
    /\ ChunkCalls = 6
    /\ a_calls = 1
    /\ p_final = a_out

\* The calls of func so far all raised a listed exception.
AllListed == \A i \in 1..Len(fn_outcomes) : fn_outcomes[i] \in Listed

\* C19: on a synchronous func, newfn ends after a call that returns, with
\* that value; after a call that raises an unlisted exception, with that
\* exception; and, when every call raises a listed exception, after exactly
\* times + 1 calls, with the exception of the last call. No call follows.
C19_SyncRetryCalls ==
    LET n == Len(fn_outcomes) IN
    /\ n <= times + 1
    /\ \A i \in 1..(n - 1) : fn_outcomes[i] \in Listed
    /\ (newfn_pc = "loop") <=> (AllListed /\ n <= times /\ newfn_pc # "idle")
    /\ newfn_pc = "loop" => attempt = n /\ newfn_result = NoOutcome
    /\ newfn_pc \in {"returned", "raised"} =>
           /\ n >= 1
           /\ newfn_result = fn_outcomes[n]
           /\ (newfn_pc = "returned") <=> (fn_outcomes[n] \in Values)
           /\ AllListed => n = times + 1

\* C19's case: func raised a listed exception on each of its times + 1
\* calls, times being 2 at least, and the last one's exception left newfn.
C19_Witness ==
    /\ newfn_pc = "raised"
    /\ times >= 2
    /\ AllListed
    /\ Len(fn_outcomes) = times + 1
    /\ newfn_result = fn_outcomes[times + 1]
    /\ fn_outcomes[1] # fn_outcomes[times + 1]

\* Chunks whose generation call is under way.
InFlight == {k \in Chunks : task[k].state = "active"}

\* The generation call for chunk k has been started.
CallStarted(k) == task[k].calls >= 1

\* C20: process_data dispatches the chunks in consecutive batches of
\* max_concurrency with a barrier: the call for a chunk of a later batch is
\* not started before every chunk of the earlier batches has completed; at
\* most max_concurrency per-chunk calls are in flight; and the aggregation
\* starts only when every chunk has its result.
C20_BatchBarrier ==
    /\ \A k \in Chunks : \A j \in Chunks :
           (BatchOf(j) > BatchOf(k) /\ CallStarted(j)) =>
               task[k].state = "done"
    /\ \A k \in Chunks :
           task[k].state # "none" =>
               \A j \in Chunks : BatchOf(j) < BatchOf(k) => task[j].state = "done"
    /\ Cardinality(InFlight) <= max_concurrency
    /\ a_status # "idle" =>
           /\ \A k \in Chunks : task[k].state = "done"
           /\ Len(p_results) = n_chunks

\* C20's case: the first batch is full and complete, and the call for a
\* chunk of the second batch is in flight.
C20_Witness ==
    /\ max_concurrency >= 2
    /\ n_chunks > max_concurrency
    /\ \A k \in 1..max_concurrency : task[k].state = "done"
    /\ g_order[1] # 1
    /\ task[max_concurrency + 1].state = "active"
    /\ Len(p_results) = max_concurrency

====
